---- MODULE Spec2Model ----
(***************************************************************************)
(* The Payment contract (contract/contracts/Payment.sol) as a state        *)
(* machine.  One top-level or nested external call is one step, except a   *)
(* withdrawal that reaches its outbound transfer: the call                 *)
(* owner().call{value: ...}("") hands control to the recipient, which may  *)
(* call back into the contract before it returns, so such a withdrawal is  *)
(* a frame that is pushed when the transfer starts (withdraw, withdrawAll) *)
(* and popped when the recipient returns (transferReturn).  A reverting    *)
(* call leaves the state as it was before the call began.                  *)
(*                                                                         *)
(* The client's subscription to PaymentReceived (eth-payment/src/App.tsx,  *)
(* PaymentService.onPaymentReceived) is a second state machine over the    *)
(* variables app and service; its steps are the points at which the        *)
(* asynchronous code resumes, the unmount of the component and the arrival *)
(* of an event.                                                            *)
(***************************************************************************)
EXTENDS Integers, Sequences, FiniteSets, TLC

VARIABLES
  payments,         \* mapping(string => PaymentRecord) public payments
  paymentOrderIds,  \* string[] public paymentOrderIds
  totalReceived,    \* uint256 public totalReceived
  owner,            \* Ownable._owner
  status,           \* ReentrancyGuard._status
  balance,          \* native balance of every account and of the contract
  events,           \* the event log of the contract
  now,              \* block.timestamp
  frames,           \* withdrawals whose outbound transfer has not returned
  last,             \* the most recent external call and how it ended
  forced,           \* value credited to the contract without a call
  app,              \* App: the effect that subscribes to PaymentReceived
  service           \* PaymentService: its contract object and the listener

ledger == <<payments, paymentOrderIds, totalReceived, owner, status, balance,
            events, now, frames, last>>
client == <<app, service>>
vars == <<payments, paymentOrderIds, totalReceived, owner, status, balance,
          events, now, frames, last, forced, app, service>>

\* ------------------------------------------------------------------ bounds
MaxValue == 1    \* largest value attached to pay
InitFunds == 1   \* native balance of every account at deployment
MaxTime == 2     \* largest block.timestamp
MaxForced == 1   \* total value credited to the contract without a call
MaxConnects == 1 \* clicks on Connect Wallet
MaxReceived == 11 \* PaymentReceived events that reach the client

\* ------------------------------------------------------------- the world
Deployer == "alice"
ZeroAddress == "0x0"
This == "Payment"
Accounts == {"alice", "bob"}
Values == 0..MaxValue
Amounts == 0..(MaxValue + 1)
\* order identifiers are byte strings
OrderIds == {<< >>, <<97>>, <<98>>}

NOT_ENTERED == "NOT_ENTERED"
ENTERED == "ENTERED"

\* how a call ends: OK, still in its outbound transfer, or the revert reason
OK == "ok"
InFlight == "in flight"
InvalidAmount == "Payment: amount must be greater than 0"
InvalidOrderId == "Payment: order ID must not be empty"
DuplicateOrder == "Payment: order ID already exists"
InsufficientBalance == "Payment: insufficient contract balance"
NothingToWithdraw == "Payment: no balance to withdraw"
TransferFailed == "Payment: withdrawal failed"
Unauthorized == "OwnableUnauthorizedAccount"
InvalidOwner == "OwnableInvalidOwner"
ReentrantCall == "ReentrancyGuardReentrantCall"

\* ------------------------------------------------------------- the state
PaymentRecord(orderId, amount, payer, timestamp) ==
  [orderId |-> orderId, amount |-> amount, payer |-> payer,
   timestamp |-> timestamp]

\* a storage slot never written reads as zero
NoRecord == PaymentRecord(<< >>, 0, ZeroAddress, 0)

PaymentReceived(orderId, amount, payer, timestamp) ==
  [name |-> "PaymentReceived", orderId |-> orderId, amount |-> amount,
   who |-> payer, timestamp |-> timestamp]

Withdrawal_Remaining(to, amount, timestamp) ==
  [name |-> "Withdrawal", orderId |-> << >>, amount |-> balance[This],
   who |-> to, timestamp |-> timestamp]

Withdrawal(to, amount, timestamp) ==
  [name |-> "Withdrawal", orderId |-> << >>, amount |-> amount,
   who |-> to, timestamp |-> timestamp]

\* everything a revert restores
Snapshot ==
  [payments |-> payments, paymentOrderIds |-> paymentOrderIds,
   totalReceived |-> totalReceived, owner |-> owner, status |-> status,
   balance |-> balance, events |-> events]

Nested == Len(frames) > 0

Call(op, caller, orderId, amount, err) ==
  [op |-> op, caller |-> caller, orderId |-> orderId, amount |-> amount,
   nested |-> Nested, err |-> err, pre |-> Snapshot]

Init ==
  /\ payments = [o \in OrderIds |-> NoRecord]
  /\ paymentOrderIds = << >>
  /\ totalReceived = 0
  /\ owner = Deployer
  /\ status = NOT_ENTERED
  /\ balance = [a \in Accounts \cup {This} |-> IF a = This THEN 0 ELSE InitFunds]
  /\ events = << >>
  /\ now = 1
  /\ frames = << >>
  /\ forced = 0
  /\ app = [active |-> TRUE, unsubscribe |-> "noop", events |-> << >>,
            pc |-> "ensureReady"]
  /\ service = [contract |-> 0, created |-> 0, listeners |-> {},
                connecting |-> FALSE, connects |-> 0, emitted |-> 0]
  /\ last = [op |-> "constructor", caller |-> Deployer, orderId |-> << >>,
             amount |-> 0, nested |-> FALSE, err |-> OK,
             pre |-> [payments |-> [o \in OrderIds |-> NoRecord],
                      paymentOrderIds |-> << >>, totalReceived |-> 0,
                      owner |-> Deployer, status |-> NOT_ENTERED,
                      balance |-> [a \in Accounts \cup {This} |->
                                     IF a = This THEN 0 ELSE InitFunds],
                      events |-> << >>]]

\* --------------------------------------------------------- the modifiers
onlyOwner_Anyone(caller) == OK

onlyOwner(caller) == IF owner # caller THEN Unauthorized ELSE OK

nonReentrantBefore_Off == OK

nonReentrantBefore == IF status = ENTERED THEN ReentrantCall ELSE OK

nonReentrantAfter_Stuck == ENTERED

nonReentrantAfter == NOT_ENTERED


Unchanged_LockLeft ==
  /\ status' = ENTERED
  /\ UNCHANGED <<payments, paymentOrderIds, totalReceived, owner, balance,
                 events, now, frames>>

\* what a failed external call leaves behind: the state it started from
Unchanged == UNCHANGED <<payments, paymentOrderIds, totalReceived, owner,
                         status, balance, events, now, frames>>

\* ------------------------------------------------------------------- pay
\* the require statements of pay, in the order written
payRequire_NoDuplicateCheck(orderId, value) ==
  IF ~(value > 0) THEN InvalidAmount
  ELSE IF ~(Len(orderId) > 0) THEN InvalidOrderId
  ELSE OK

payRequire_IdFirst(orderId, value) ==
  IF ~(Len(orderId) > 0) THEN InvalidOrderId
  ELSE IF ~(value > 0) THEN InvalidAmount
  ELSE IF ~(payments[orderId].amount = 0) THEN DuplicateOrder
  ELSE OK

payRequire_NoIdCheck(orderId, value) ==
  IF ~(value > 0) THEN InvalidAmount
  ELSE IF ~(payments[orderId].amount = 0) THEN DuplicateOrder
  ELSE OK

payRequire(orderId, value) ==
  IF ~(value > 0) THEN InvalidAmount
  ELSE IF ~(Len(orderId) > 0) THEN InvalidOrderId
  ELSE IF ~(payments[orderId].amount = 0) THEN DuplicateOrder
  ELSE OK

payError_Unguarded(orderId, value) == payRequire(orderId, value)

\* pay(...) public payable nonReentrant
payError(orderId, value) ==
  IF nonReentrantBefore # OK THEN nonReentrantBefore
  ELSE payRequire(orderId, value)

pushOrderId_Skip(ids, orderId) == ids

pushOrderId_Front(ids, orderId) == <<orderId>> \o ids

pushOrderId(ids, orderId) == Append(ids, orderId)

\* the value attached to a payable call moves with the call
receiveValue(bal, from, value) ==
  [bal EXCEPT ![from] = @ - value, ![This] = @ + value]

pay(caller, orderId, value) ==
  /\ value <= balance[caller]
  /\ LET err == payError(orderId, value) IN
       /\ last' = Call("pay", caller, orderId, value, err)
       /\ IF err = OK
            THEN /\ payments' = [payments EXCEPT ![orderId] =
                                   PaymentRecord(orderId, value, caller, now)]
                 /\ paymentOrderIds' = pushOrderId(paymentOrderIds, orderId)
                 /\ totalReceived' = totalReceived + value
                 /\ balance' = receiveValue(balance, caller, value)
                 /\ events' = Append(events,
                                 PaymentReceived(orderId, value, caller, now))
                 /\ status' = nonReentrantAfter
                 /\ UNCHANGED <<owner, now, frames>>
            ELSE Unchanged

\* ------------------------------------------------- withdraw, withdrawAll
withdrawRequire_AgainstTotal(amount) ==
  IF ~(amount > 0) THEN InvalidAmount
  ELSE IF ~(amount <= totalReceived) THEN InsufficientBalance
  ELSE OK

withdrawRequire(amount) ==
  IF ~(amount > 0) THEN InvalidAmount
  ELSE IF ~(amount <= balance[This]) THEN InsufficientBalance
  ELSE OK

\* the modifiers run in the order written: onlyOwner, then nonReentrant
guardedByOwner_LockFirst(caller) ==
  IF nonReentrantBefore # OK THEN nonReentrantBefore
  ELSE onlyOwner(caller)

guardedByOwner(caller) ==
  IF onlyOwner(caller) # OK THEN onlyOwner(caller)
  ELSE nonReentrantBefore

withdrawError(caller, amount) ==
  IF guardedByOwner(caller) # OK THEN guardedByOwner(caller)
  ELSE withdrawRequire(amount)

heldBalance_Total == totalReceived

\* uint256 balance = address(this).balance
heldBalance == balance[This]

withdrawAllRequire(held) ==
  IF ~(held > 0) THEN NothingToWithdraw ELSE OK

withdrawAllError_NoOwnerCheck(caller) ==
  IF nonReentrantBefore # OK THEN nonReentrantBefore
  ELSE withdrawAllRequire(heldBalance)

withdrawAllError(caller) ==
  IF guardedByOwner(caller) # OK THEN guardedByOwner(caller)
  ELSE withdrawAllRequire(heldBalance)

\* owner().call{value: amount}(""): the value moves when the call starts
sendValue_Everything(bal, to, amount) ==
  [bal EXCEPT ![This] = 0, ![to] = @ + bal[This]]

sendValue(bal, to, amount) ==
  [bal EXCEPT ![This] = @ - amount, ![to] = @ + amount]

\* startTransfer that also takes the amount off the running total
startTransfer_Debit(op, caller, amount) ==
  /\ frames' = Append(frames, Call(op, caller, << >>, amount, InFlight))
  /\ last' = Call(op, caller, << >>, amount, InFlight)
  /\ status' = ENTERED
  /\ balance' = sendValue(balance, owner, amount)
  /\ totalReceived' = totalReceived - amount
  /\ UNCHANGED <<payments, paymentOrderIds, owner, events, now>>

\* the call reaches its outbound transfer: control passes to the recipient
startTransfer(op, caller, amount) ==
  /\ frames' = Append(frames, Call(op, caller, << >>, amount, InFlight))
  /\ last' = Call(op, caller, << >>, amount, InFlight)
  /\ status' = ENTERED
  /\ balance' = sendValue(balance, owner, amount)
  /\ UNCHANGED <<payments, paymentOrderIds, totalReceived, owner, events, now>>

withdraw(caller, amount) ==
  LET err == withdrawError(caller, amount) IN
    IF err = OK
      THEN startTransfer("withdraw", caller, amount)
      ELSE /\ last' = Call("withdraw", caller, << >>, amount, err)
           /\ Unchanged

withdrawAll(caller) ==
  LET err == withdrawAllError(caller) IN
    IF err = OK
      THEN startTransfer("withdrawAll", caller, heldBalance)
      ELSE /\ last' = Call("withdrawAll", caller, << >>, 0, err)
           /\ Unchanged

\* a revert discards every effect of the call, the lock taken included
revertedStatus_Kept(pre) == status

revertedStatus(pre) == pre.status

\* transferReturn with a failed transfer that leaves the funds where they went
transferReturn_FundsGone(success) ==
  /\ Nested
  /\ LET top == frames[Len(frames)] IN
       /\ frames' = SubSeq(frames, 1, Len(frames) - 1)
       /\ IF success
            THEN /\ events' = Append(events, Withdrawal(owner, top.amount, now))
                 /\ status' = nonReentrantAfter
                 /\ last' = [top EXCEPT !.err = OK]
                 /\ UNCHANGED <<payments, paymentOrderIds, totalReceived,
                                owner, balance, now>>
            ELSE /\ payments' = top.pre.payments
                 /\ paymentOrderIds' = top.pre.paymentOrderIds
                 /\ totalReceived' = top.pre.totalReceived
                 /\ owner' = top.pre.owner
                 /\ status' = revertedStatus(top.pre)
                 /\ events' = top.pre.events
                 /\ last' = [top EXCEPT !.err = TransferFailed]
                 /\ UNCHANGED <<balance, now>>

\* the recipient of the innermost outbound transfer returns
transferReturn(success) ==
  /\ Nested
  /\ LET top == frames[Len(frames)] IN
       /\ frames' = SubSeq(frames, 1, Len(frames) - 1)
       /\ IF success
            THEN /\ events' = Append(events, Withdrawal(owner, top.amount, now))
                 /\ status' = nonReentrantAfter
                 /\ last' = [top EXCEPT !.err = OK]
                 /\ UNCHANGED <<payments, paymentOrderIds, totalReceived,
                                owner, balance, now>>
            ELSE /\ payments' = top.pre.payments
                 /\ paymentOrderIds' = top.pre.paymentOrderIds
                 /\ totalReceived' = top.pre.totalReceived
                 /\ owner' = top.pre.owner
                 /\ status' = revertedStatus(top.pre)
                 /\ balance' = top.pre.balance
                 /\ events' = top.pre.events
                 /\ last' = [top EXCEPT !.err = TransferFailed]
                 /\ UNCHANGED now

\* --------------------------------------------- inherited from Ownable
transferOwnership(caller, newOwner) ==
  LET err == IF onlyOwner(caller) # OK THEN onlyOwner(caller)
             ELSE IF newOwner = ZeroAddress THEN InvalidOwner
             ELSE OK IN
    /\ last' = Call("transferOwnership", caller, << >>, 0, err)
    /\ owner' = IF err = OK THEN newOwner ELSE owner
    /\ UNCHANGED <<payments, paymentOrderIds, totalReceived, status, balance,
                   events, now, frames>>

renounceOwnership(caller) ==
  LET err == onlyOwner(caller) IN
    /\ last' = Call("renounceOwnership", caller, << >>, 0, err)
    /\ owner' = IF err = OK THEN ZeroAddress ELSE owner
    /\ UNCHANGED <<payments, paymentOrderIds, totalReceived, status, balance,
                   events, now, frames>>

\* ------------------------------------------------- receive, fallback
DirectTransferRejected == "Payment: use pay() function to send payments"

receive_Accepts(caller, value) ==
  /\ value <= balance[caller]
  /\ last' = Call("receive", caller, << >>, value, OK)
  /\ balance' = receiveValue(balance, caller, value)
  /\ UNCHANGED <<payments, paymentOrderIds, totalReceived, owner, status,
                 events, now, frames>>

\* a plain transfer: a call with empty calldata
receive(caller, value) ==
  /\ value <= balance[caller]
  /\ last' = Call("receive", caller, << >>, value, DirectTransferRejected)
  /\ Unchanged

\* a call to a function the contract does not have
fallback(caller, value) ==
  /\ value <= balance[caller]
  /\ last' = Call("fallback", caller, << >>, value, DirectTransferRejected)
  /\ Unchanged

\* ------------------------------------------------------ the environment
\* a later block: block.timestamp is fixed within one transaction
nextBlock ==
  /\ ~Nested
  /\ now < MaxTime
  /\ now' = now + 1
  /\ UNCHANGED <<payments, paymentOrderIds, totalReceived, owner, status,
                 balance, events, frames, last>>

\* a call to the contract leaves the client and the forced value alone
Next ==
  \/ \E c \in Accounts, o \in OrderIds, v \in Values :
       pay(c, o, v) /\ UNCHANGED <<forced, client>>
  \/ \E c \in Accounts, a \in Amounts :
       withdraw(c, a) /\ UNCHANGED <<forced, client>>
  \/ \E c \in Accounts :
       withdrawAll(c) /\ UNCHANGED <<forced, client>>
  \/ \E s \in BOOLEAN :
       transferReturn(s) /\ UNCHANGED <<forced, client>>
  \/ \E c \in Accounts, n \in Accounts \cup {ZeroAddress} :
       transferOwnership(c, n) /\ UNCHANGED <<forced, client>>
  \/ \E c \in Accounts :
       renounceOwnership(c) /\ UNCHANGED <<forced, client>>
  \/ \E c \in Accounts, v \in Values :
       receive(c, v) /\ UNCHANGED <<forced, client>>
  \/ \E c \in Accounts, v \in Values :
       fallback(c, v) /\ UNCHANGED <<forced, client>>
  \/ nextBlock /\ UNCHANGED <<forced, client>>

Spec == Init /\ [][Next]_vars

\* the recipient of an outbound transfer runs to its end or runs out of gas:
\* the call returns, successfully or not
Returns == \E s \in BOOLEAN : transferReturn(s) /\ UNCHANGED <<forced, client>>

\* the ledger when every outbound transfer returns
SpecLive == Spec /\ WF_vars(Returns)

\* value credited to the contract without a call (a contract funded by
\* `from` destroys itself in favour of the ledger): no code of the ledger
\* runs, so neither receive nor fallback can refuse it; it arrives in a
\* transaction of its own
forceValue(from, value) ==
  /\ ~Nested
  /\ value > 0
  /\ value <= balance[from]
  /\ forced + value <= MaxForced
  /\ balance' = [balance EXCEPT ![from] = @ - value, ![This] = @ + value]
  /\ forced' = forced + value
  /\ UNCHANGED <<payments, paymentOrderIds, totalReceived, owner, status,
                 events, now, frames, last>>

\* the calls to the contract within one block, and value arriving without a
\* call
NextForced ==
  \/ \E c \in Accounts, o \in OrderIds, v \in Values :
       pay(c, o, v) /\ UNCHANGED <<forced, client>>
  \/ \E c \in Accounts, a \in Amounts :
       withdraw(c, a) /\ UNCHANGED <<forced, client>>
  \/ \E c \in Accounts :
       withdrawAll(c) /\ UNCHANGED <<forced, client>>
  \/ \E s \in BOOLEAN :
       transferReturn(s) /\ UNCHANGED <<forced, client>>
  \/ \E c \in Accounts, v \in Values :
       receive(c, v) /\ UNCHANGED <<forced, client>>
  \/ \E c \in Accounts, v \in Values :
       fallback(c, v) /\ UNCHANGED <<forced, client>>
  \/ \E c \in Accounts, n \in Accounts \cup {ZeroAddress} :
       transferOwnership(c, n) /\ UNCHANGED <<forced, client>>
  \/ \E c \in Accounts :
       renounceOwnership(c) /\ UNCHANGED <<forced, client>>
  \/ \E c \in Accounts, v \in Values :
       forceValue(c, v) /\ UNCHANGED client

\* the ledger in a chain where value can also arrive without a call
SpecForced == Init /\ [][NextForced]_vars

\* ------------------------------------------------------------- the client
\* PaymentService.init() reaches its last statement:
\* this.contract = new Contract(...), a new object each time
init(svc) == [svc EXCEPT !.created = @ + 1, !.contract = svc.created + 1]

\* this.contract?.off('PaymentReceived', listener): the Contract object is
\* the one this.contract names when the function runs
off(svc) == [svc EXCEPT !.listeners = @ \ {svc.contract}]

\* the handler App passes to onPaymentReceived
handler(a, record) ==
  IF ~a.active THEN a
  ELSE [a EXCEPT !.events =
          <<record>> \o (IF Len(@) > 9 THEN SubSeq(@, 1, 9) ELSE @)]

\* onPaymentReceived: the await of ensureReady() ends; the init() it started
\* has built the contract object or has thrown, and the throw reaches the
\* catch in App
ensureReady(ok) ==
  /\ app.pc = "ensureReady"
  /\ IF ok
       THEN /\ service' = init(service)
            /\ app' = [app EXCEPT !.pc = "on"]
       ELSE /\ app' = [app EXCEPT !.pc = "done"]
            /\ UNCHANGED service
  /\ UNCHANGED <<ledger, forced>>

\* onPaymentReceived: this.contract.on('PaymentReceived', listener), and the
\* promise resolves with the function that removes the listener
on ==
  /\ app.pc = "on"
  /\ service' = [service EXCEPT !.listeners = @ \cup {service.contract}]
  /\ app' = [app EXCEPT !.pc = "await"]
  /\ UNCHANGED <<ledger, forced>>

\* App: the await of service.onPaymentReceived ends with fn
subscribed ==
  /\ app.pc = "await"
  /\ IF app.active
       THEN /\ app' = [app EXCEPT !.unsubscribe = "fn", !.pc = "done"]
            /\ UNCHANGED service
       ELSE /\ app' = [app EXCEPT !.pc = "done"]
            /\ service' = off(service)
  /\ UNCHANGED <<ledger, forced>>

\* App: the cleanup of the effect, on unmount
cleanup ==
  /\ app.active
  /\ app' = [app EXCEPT !.active = FALSE]
  /\ service' = IF app.unsubscribe = "fn" THEN off(service) ELSE service
  /\ UNCHANGED <<ledger, forced>>

\* App: the Connect Wallet button calls service.connectWallet()
connectWallet ==
  /\ app.active
  /\ ~service.connecting
  /\ service.connects < MaxConnects
  /\ service' = [service EXCEPT !.connecting = TRUE, !.connects = @ + 1]
  /\ UNCHANGED <<ledger, forced, app>>

\* connectWallet: its await of this.init() ends, or a step before it threw
connected(ok) ==
  /\ service.connecting
  /\ service' = IF ok THEN [init(service) EXCEPT !.connecting = FALSE]
                      ELSE [service EXCEPT !.connecting = FALSE]
  /\ UNCHANGED <<ledger, forced, app>>

\* a PaymentReceived event reaches the client: a Contract object that still
\* carries the listener calls it, and the listener calls the handler
PaymentReceivedArrives ==
  /\ service.emitted < MaxReceived
  /\ service' = [service EXCEPT !.emitted = @ + 1]
  /\ app' = IF service.listeners # {}
              THEN handler(app, service.emitted + 1)
              ELSE app
  /\ UNCHANGED <<ledger, forced>>

NextApp ==
  \/ \E ok \in BOOLEAN : ensureReady(ok)
  \/ on
  \/ subscribed
  \/ cleanup
  \/ connectWallet
  \/ \E ok \in BOOLEAN : connected(ok)
  \/ PaymentReceivedArrives

\* the client beside a ledger that it only listens to
SpecApp == Init /\ [][NextApp]_vars

\* ------------------------------------------------------------ the getters
getPaymentCount == Len(paymentOrderIds)

OrderNotFound == "Payment: order ID does not exist"

getPayment_Guarded(orderId) ==
  LET payment == payments[orderId] IN
    IF nonReentrantBefore # OK
      THEN [err |-> nonReentrantBefore, ret |-> << >>]
    ELSE IF ~(payment.amount # 0)
      THEN [err |-> OrderNotFound, ret |-> << >>]
      ELSE [err |-> OK,
            ret |-> <<payment.orderId, payment.amount, payment.payer,
                      payment.timestamp>>]

getPayment_NoCheck(orderId) ==
  LET payment == payments[orderId] IN
    [err |-> OK,
     ret |-> <<payment.orderId, payment.amount, payment.payer,
               payment.timestamp>>]

\* a view function: its answer in the current state, an error or the four
\* fields of the stored record
getPayment(orderId) ==
  LET payment == payments[orderId] IN
    IF ~(payment.amount # 0)
      THEN [err |-> OrderNotFound, ret |-> << >>]
      ELSE [err |-> OK,
            ret |-> <<payment.orderId, payment.amount, payment.payer,
                      payment.timestamp>>]

\* ------------------------------------------------- what the claims speak of
RECURSIVE SumAmounts(_, _)
SumAmounts(recs, ids) ==
  IF ids = {} THEN 0
  ELSE LET o == CHOOSE x \in ids : TRUE IN
         recs[o].amount + SumAmounts(recs, ids \ {o})

EventsNamed(evs, name) == {i \in 1..Len(evs) : evs[i].name = name}

\* the order identifiers pay has accepted, read off the event log
AcceptedIds(evs) == {evs[i].orderId : i \in EventsNamed(evs, "PaymentReceived")}

Ended == last.err # InFlight
Failed == last.err \notin {OK, InFlight}

\* the ledger: records, order index, running total
SameLedger(pre) ==
  /\ payments = pre.payments
  /\ paymentOrderIds = pre.paymentOrderIds
  /\ totalReceived = pre.totalReceived

\* the ledger and the held balance
SameLedgerAndFunds(pre) ==
  /\ SameLedger(pre)
  /\ balance[This] = pre.balance[This]

\* C1: in every state, getPaymentCount() is the number of distinct order
\* identifiers pay has accepted, and totalReceived() is the sum of the amounts
\* of the stored records.
C1_CountAndTotal ==
  /\ getPaymentCount = Cardinality(AcceptedIds(events))
  /\ totalReceived = SumAmounts(payments, OrderIds)

\* two orders accepted, funds withdrawn, and the latest call rejected
C1_Witness ==
  /\ getPaymentCount = 2
  /\ EventsNamed(events, "Withdrawal") # {}
  /\ Failed

\* C2 as stated: for every order identifier, the first pay with a positive
\* amount succeeds and every later one fails with DuplicateOrder, leaving
\* records, order index, totalReceived and held balance as they were.
C2_Original ==
  (last.op = "pay" /\ last.amount > 0) =>
    IF last.orderId \in AcceptedIds(last.pre.events)
      THEN last.err = DuplicateOrder /\ SameLedgerAndFunds(last.pre)
      ELSE last.err = OK

\* C2 as amended: for every non-empty order identifier, the first non-nested
\* pay with a positive amount succeeds and every later non-nested pay with
\* that identifier (any caller, any positive amount) fails with
\* DuplicateOrder; records, order index, totalReceived and held balance after
\* the failed call are what they were before it.
C2_DuplicateRejected ==
  (last.op = "pay" /\ last.amount > 0 /\ ~last.nested
     /\ Len(last.orderId) > 0) =>
    IF last.orderId \in AcceptedIds(last.pre.events)
      THEN last.err = DuplicateOrder /\ SameLedgerAndFunds(last.pre)
      ELSE last.err = OK

\* an identifier paid by one account is refused to the other
C2_Witness ==
  /\ last.op = "pay" /\ last.amount > 0 /\ ~last.nested
  /\ last.err = DuplicateOrder
  /\ last.orderId \in AcceptedIds(last.pre.events)
  /\ payments[last.orderId].payer # last.caller

\* C3: a non-nested pay with attached amount 0 fails with InvalidAmount for
\* every order identifier (empty, new, already used), and totalReceived() and
\* getPaymentCount() are what they were before it.
C3_ZeroAmount ==
  (last.op = "pay" /\ last.amount = 0 /\ ~last.nested) =>
    /\ last.err = InvalidAmount
    /\ totalReceived = last.pre.totalReceived
    /\ getPaymentCount = Len(last.pre.paymentOrderIds)

\* a zero pay under the empty identifier, after another identifier was used
C3_Witness ==
  /\ last.op = "pay" /\ last.amount = 0 /\ ~last.nested
  /\ last.orderId = << >>
  /\ getPaymentCount > 0
  /\ last.err = InvalidAmount

C3_WitnessUsedId ==
  /\ last.op = "pay" /\ last.amount = 0 /\ ~last.nested
  /\ last.orderId \in AcceptedIds(events)
  /\ last.err = InvalidAmount


\* C4: a withdraw(x) by the owner with 0 < x <= held balance whose transfer
\* succeeds lowers the held balance by exactly x, raises the owner's balance
\* by exactly x, and leaves totalReceived(), the records and the order index
\* as they were.
C4_WithdrawMovesExactly ==
  (last.op = "withdraw" /\ last.caller = last.pre.owner
     /\ 0 < last.amount /\ last.amount <= last.pre.balance[This]
     /\ last.err = OK) =>
    /\ balance[This] = last.pre.balance[This] - last.amount
    /\ balance[last.caller] = last.pre.balance[last.caller] + last.amount
    /\ SameLedger(last.pre)

\* a partial withdrawal: funds remain held after it
C4_Witness ==
  /\ last.op = "withdraw" /\ last.err = OK
  /\ last.amount < last.pre.balance[This]
  /\ balance[This] > 0

\* C5: withdraw and withdrawAll by a caller other than the owner fail with
\* Unauthorized for every amount, every held balance and every state of the
\* reentrancy lock, and change nothing.
C5_NonOwnerRejected ==
  (last.op \in {"withdraw", "withdrawAll"}
     /\ last.caller # last.pre.owner) =>
    /\ last.err = Unauthorized
    /\ Snapshot = last.pre

\* a non-owner asks for more than is held while the lock is taken
C5_Witness ==
  /\ last.op = "withdraw" /\ last.caller # last.pre.owner
  /\ last.pre.status = ENTERED
  /\ last.amount > last.pre.balance[This]
  /\ last.err = Unauthorized

\* C6: a non-nested withdraw by the owner of 0 fails with InvalidAmount
\* whatever is held, and of a positive amount above the held balance fails
\* with InsufficientBalance; so once withdrawals have emptied the contract,
\* any positive withdrawal fails with InsufficientBalance.
C6_WithdrawValidation ==
  (last.op = "withdraw" /\ ~last.nested
     /\ last.caller = last.pre.owner) =>
    /\ (last.amount = 0 => last.err = InvalidAmount)
    /\ (last.amount > last.pre.balance[This]
          => last.err = InsufficientBalance)

\* two withdrawals emptied the contract and a third one is refused
C6_Witness ==
  /\ last.op = "withdraw" /\ ~last.nested
  /\ last.caller = last.pre.owner
  /\ Cardinality(EventsNamed(last.pre.events, "Withdrawal")) = 2
  /\ last.pre.totalReceived > 0
  /\ last.pre.balance[This] = 0
  /\ last.amount > 0
  /\ last.err = InsufficientBalance

\* C7 as stated: withdrawAll by the owner with held balance b > 0 and a
\* succeeding transfer empties the contract and pays the owner b; withdrawAll
\* by the owner while nothing is held fails with NothingToWithdraw.
C7_Original ==
  (last.op = "withdrawAll" /\ last.caller = last.pre.owner) =>
    IF last.pre.balance[This] > 0
      THEN last.err = OK =>
             /\ balance[This] = 0
             /\ balance[last.caller] =
                  last.pre.balance[last.caller] + last.pre.balance[This]
             /\ SameLedger(last.pre)
      ELSE last.err = NothingToWithdraw

\* C7 as amended: withdrawAll by the owner with held balance b > 0 and a
\* succeeding transfer empties the contract and pays the owner b, as
\* withdraw(b) does; a non-nested withdrawAll by the owner while nothing is
\* held fails with NothingToWithdraw.
C7_WithdrawAll ==
  (last.op = "withdrawAll" /\ last.caller = last.pre.owner) =>
    IF last.pre.balance[This] > 0
      THEN last.err = OK =>
             /\ balance[This] = 0
             /\ balance[last.caller] =
                  last.pre.balance[last.caller] + last.pre.balance[This]
             /\ SameLedger(last.pre)
      ELSE ~last.nested => last.err = NothingToWithdraw

\* a second withdrawAll right after the one that emptied the contract
C7_Witness ==
  /\ last.op = "withdrawAll" /\ last.caller = last.pre.owner
  /\ ~last.nested
  /\ last.err = NothingToWithdraw
  /\ Len(last.pre.events) > 0
  /\ last.pre.events[Len(last.pre.events)].name = "Withdrawal"
  /\ last.pre.events[Len(last.pre.events)].amount = last.pre.totalReceived

\* withdrawAll paid out what was left after a partial withdrawal
C7_WitnessPaid ==
  /\ last.op = "withdrawAll" /\ last.err = OK
  /\ last.pre.balance[This] > 0
  /\ last.pre.balance[This] < totalReceived
  /\ balance[This] = 0

Guarded == {"pay", "withdraw", "withdrawAll"}

\* C8 as stated: every pay, withdraw or withdrawAll that begins while a
\* guarded call is in progress fails with ReentrantCall, whoever calls.
C8_Original ==
  (last.op \in Guarded /\ last.nested) => last.err = ReentrantCall

\* C8 as amended: a pay that begins while a guarded call is in progress fails
\* with ReentrantCall whoever calls and whatever the arguments; a withdraw or
\* withdrawAll that begins then fails with ReentrantCall when the owner
\* calls, and with Unauthorized when anyone else calls.
C8_NestedRejected ==
  (last.op \in Guarded /\ last.nested) =>
    IF last.op = "pay" \/ last.caller = last.pre.owner
      THEN last.err = ReentrantCall
      ELSE last.err = Unauthorized

\* the owner re-enters withdraw for an amount that is still held
C8_Witness ==
  /\ last.op = "withdraw" /\ last.nested
  /\ last.caller = last.pre.owner
  /\ 0 < last.amount /\ last.amount <= last.pre.balance[This]
  /\ last.err = ReentrantCall

\* C9: no top-level pay, withdraw or withdrawAll fails with ReentrantCall,
\* whatever came before it; ReentrantCall is the fate only of a call that
\* starts while a guarded call holds the lock.
C9_SequentialNeverReentrant ==
  /\ (last.op \in Guarded /\ ~last.nested) => last.err # ReentrantCall
  /\ last.err = ReentrantCall =>
       last.nested /\ last.pre.status = ENTERED

\* a top-level withdraw succeeds right after an earlier successful one
C9_Witness ==
  /\ last.op = "withdraw" /\ ~last.nested /\ last.err = OK
  /\ EventsNamed(last.pre.events, "Withdrawal") # {}
  /\ balance[This] = 0

\* C10: the lock is idle whenever no guarded call is in progress, so after
\* every completed top-level pay, withdraw or withdrawAll, however it ended,
\* and is busy only while a guarded call is in progress.
C10_LockIdleAtRest ==
  /\ ~Nested => status = NOT_ENTERED
  /\ (last.op \in Guarded /\ ~last.nested /\ Ended) => status = NOT_ENTERED
  /\ status = ENTERED => Nested

\* a top-level withdrawal ended by the failure of its outbound transfer
C10_Witness ==
  /\ last.op \in {"withdraw", "withdrawAll"} /\ ~last.nested
  /\ last.err = TransferFailed
  /\ ~Nested
  /\ status = NOT_ENTERED


Withdrawals == {"withdraw", "withdrawAll"}

\* C11: a withdraw or withdrawAll whose outbound transfer reports failure
\* fails with TransferFailed; no Withdrawal event is logged, and the held
\* balance, the owner's balance, the records, the order index and
\* totalReceived are what they were before the call.
C11_FailedTransferRestores ==
  (last.op \in Withdrawals /\ last.err = TransferFailed) =>
    /\ events = last.pre.events
    /\ balance = last.pre.balance
    /\ owner = last.pre.owner
    /\ SameLedger(last.pre)

\* a withdrawAll of held funds ended by a failed transfer
C11_Witness ==
  /\ last.op = "withdrawAll" /\ last.err = TransferFailed
  /\ balance[This] > 0
  /\ balance[This] = last.amount

\* C12: getPayment(orderId) returns the order identifier, amount, payer and
\* timestamp that the successful pay for orderId logged, and fails with
\* OrderNotFound when no pay for orderId ever succeeded.
C12_GetPayment ==
  /\ \A i \in EventsNamed(events, "PaymentReceived") :
       getPayment(events[i].orderId) =
         [err |-> OK,
          ret |-> <<events[i].orderId, events[i].amount, events[i].who,
                    events[i].timestamp>>]
  /\ \A o \in OrderIds \ AcceptedIds(events) :
       getPayment(o).err = OrderNotFound

\* one order paid in the first block and read in a later one, another
\* never paid, while a withdrawal is in flight
C12_Witness ==
  /\ Cardinality(AcceptedIds(events)) = 1
  /\ \E o \in AcceptedIds(events) :
       /\ getPayment(o).err = OK
       /\ getPayment(o).ret[4] < now
  /\ Nested


\* C13: value sent by a plain transfer or by a call to an unknown function,
\* whatever the value and whoever the sender, the owner included, is rejected
\* with DirectTransferRejected, and the held balance, the records, the order
\* index and totalReceived stay as they were.
C13_DirectTransferRejected ==
  (last.op \in {"receive", "fallback"}) =>
    /\ last.err = DirectTransferRejected
    /\ SameLedgerAndFunds(last.pre)
    /\ balance = last.pre.balance

\* the owner sends value in a plain transfer while funds are held
C13_Witness ==
  /\ last.op = "receive" /\ last.amount > 0
  /\ last.caller = owner
  /\ balance[This] > 0
  /\ last.err = DirectTransferRejected


Stored == {o \in OrderIds : payments[o].amount # 0}

\* C14: a record, once a successful pay has created it, keeps its order
\* identifier, amount, payer and timestamp and is never removed, whatever
\* call or block follows.
C14_RecordsImmutable ==
  [][\A o \in Stored : payments'[o] = payments[o]]_vars

\* a record made in the first block, still there after a withdrawal, a new
\* block and a rejected pay under the same identifier
C14_Witness ==
  /\ \E o \in Stored : payments[o].timestamp < now
  /\ EventsNamed(events, "Withdrawal") # {}
  /\ last.op = "pay" /\ last.err = DuplicateOrder


LastEvent == events[Len(events)]

\* C15: a successful pay appends one PaymentReceived event carrying the
\* order identifier, amount, payer and timestamp of the stored record; a
\* successful withdraw or withdrawAll appends one Withdrawal event naming the
\* owner and the amount moved; a failed call appends nothing; so the log
\* lists the successful calls in the order they were executed.
C15_EventLog ==
  /\ (last.op = "pay" /\ last.err = OK) =>
       /\ events = Append(last.pre.events,
                     [name |-> "PaymentReceived",
                      orderId |-> payments[last.orderId].orderId,
                      amount |-> payments[last.orderId].amount,
                      who |-> payments[last.orderId].payer,
                      timestamp |-> payments[last.orderId].timestamp])
       /\ LastEvent.orderId = last.orderId
       /\ LastEvent.amount = last.amount
       /\ LastEvent.who = last.caller
  /\ (last.op \in Withdrawals /\ last.err = OK) =>
       /\ Len(events) = Len(last.pre.events) + 1
       /\ SubSeq(events, 1, Len(last.pre.events)) = last.pre.events
       /\ LastEvent.name = "Withdrawal"
       /\ LastEvent.who = owner
       /\ LastEvent.amount = last.pre.balance[This] - balance[This]
       /\ LastEvent.amount = last.amount
  /\ (Failed \/ last.err = InFlight) => events = last.pre.events

\* payment, withdrawal, payment: three events in the order of the calls
C15_Witness ==
  /\ Len(events) = 3
  /\ events[1].name = "PaymentReceived"
  /\ events[2].name = "Withdrawal"
  /\ events[3].name = "PaymentReceived"
  /\ events[1].timestamp < events[3].timestamp
  /\ last.op = "pay" /\ last.err = OK

\* C16: a call that fails reports its error and leaves no effect: records,
\* order index, totalReceived, balances, owner, lock and log are what they
\* were when the call began.
C16_FailureDiscardsEffects ==
  Failed => Snapshot = last.pre

\* a top-level withdraw refused for lack of funds while some are held
C16_Witness ==
  /\ last.op = "withdraw" /\ ~last.nested
  /\ last.err = InsufficientBalance
  /\ balance[This] > 0
  /\ Snapshot = last.pre

\* C17 as stated: in every reachable state the owner is the deployer.
C17_Original == owner = Deployer

\* C17 as amended: the owner is the deployer at construction and afterwards
\* changes only in a successful transferOwnership or renounceOwnership, the
\* operations inherited from Ownable, called by the current owner (and back,
\* when a withdrawal whose transfer fails undoes such a change made during
\* the transfer); no other call changes it.
C17_OwnerChangesOnlyByOwner ==
  [][owner' # owner =>
       \/ /\ last'.op \in {"transferOwnership", "renounceOwnership"}
          /\ last'.err = OK
          /\ last'.caller = owner
          /\ last'.pre.owner = owner
       \/ /\ last'.op \in Withdrawals
          /\ last'.err = TransferFailed
          /\ owner' = last'.pre.owner]_vars

\* ownership handed to another account, which then withdraws
C17_Witness ==
  /\ owner # Deployer /\ owner # ZeroAddress
  /\ last.op = "withdraw" /\ last.err = OK
  /\ last.caller = owner


RECURSIVE AcceptedSeq(_)
\* the accepted order identifiers in the order pay accepted them
AcceptedSeq(evs) ==
  IF evs = << >> THEN << >>
  ELSE LET e == evs[Len(evs)]
           rest == AcceptedSeq(SubSeq(evs, 1, Len(evs) - 1)) IN
         IF e.name = "PaymentReceived" THEN Append(rest, e.orderId) ELSE rest

Positions(o) == {i \in 1..Len(paymentOrderIds) : paymentOrderIds[i] = o}

\* C18: the order index holds no identifier twice, every identifier in it
\* has a stored record with amount > 0, every stored record with amount > 0
\* is in it exactly once, and it lists the identifiers in the order their
\* payments were accepted.
C18_IndexMatchesRecords ==
  /\ \A o \in OrderIds : Cardinality(Positions(o)) <= 1
  /\ \A i \in 1..Len(paymentOrderIds) : payments[paymentOrderIds[i]].amount > 0
  /\ \A o \in Stored : Cardinality(Positions(o)) = 1
  /\ paymentOrderIds = AcceptedSeq(events)

\* two records, indexed in the order of their payments
C18_Witness ==
  /\ Len(paymentOrderIds) = 2
  /\ payments[paymentOrderIds[1]].timestamp
       < payments[paymentOrderIds[2]].timestamp
  /\ Cardinality(Stored) = 2

\* C19: totalReceived changes only in a successful pay, which raises it by
\* exactly the attached amount; every other step (withdraw, withdrawAll,
\* failed, nested and rejected calls, a reverted transfer) leaves it as it
\* is, so it never decreases.
C19_TotalOnlyGrowsByPay ==
  [][/\ totalReceived' # totalReceived =>
          /\ last'.op = "pay" /\ last'.err = OK
          /\ last'.pre.totalReceived = totalReceived
          /\ totalReceived' = totalReceived + last'.amount
     /\ (last'.op = "pay" /\ last'.err = OK /\ events' # events) =>
          totalReceived' = totalReceived + last'.amount
     /\ totalReceived' >= totalReceived]_vars

\* the total stands above the held balance after a withdrawal and a
\* second payment
C19_Witness ==
  /\ last.op = "pay" /\ last.err = OK
  /\ last.pre.totalReceived > 0
  /\ totalReceived = last.pre.totalReceived + last.amount
  /\ balance[This] < totalReceived

\* the error the require statements of pay must give, by the order of the
\* checks: amount, identifier, reuse
ExpectedPayError(pre, orderId, value) ==
  IF value = 0 THEN InvalidAmount
  ELSE IF orderId = << >> THEN InvalidOrderId
  ELSE IF orderId \in AcceptedIds(pre.events) THEN DuplicateOrder
  ELSE OK

\* C20: a non-nested pay with a positive amount and the empty identifier
\* fails with InvalidOrderId, stores nothing under the empty key and leaves
\* order index, totalReceived and held balance as they were; the outcome of
\* a non-nested pay is that of the first failing check in the order
\* amount > 0, identifier non-empty, identifier unused.
C20_PayCheckOrder ==
  (last.op = "pay" /\ ~last.nested) =>
    /\ last.err = ExpectedPayError(last.pre, last.orderId, last.amount)
    /\ (last.amount > 0 /\ last.orderId = << >>) =>
         /\ last.err = InvalidOrderId
         /\ payments[<< >>] = NoRecord
         /\ paymentOrderIds = last.pre.paymentOrderIds
         /\ totalReceived = last.pre.totalReceived
         /\ balance[This] = last.pre.balance[This]

\* a positive pay under the empty identifier after another was accepted
C20_Witness ==
  /\ last.op = "pay" /\ ~last.nested
  /\ last.amount > 0 /\ last.orderId = << >>
  /\ last.err = InvalidOrderId
  /\ getPaymentCount > 0


\* the withdrawal whose outbound transfer is in flight
Outer == frames[1]

\* C21: while the transfer of a withdraw or withdrawAll is in flight, nothing
\* the recipient calls changes the records, the order index or totalReceived
\* or moves further funds; when the outer call succeeds, exactly the
\* requested amount has left the contract and exactly one Withdrawal event
\* has been logged.
C21_NestedCallsChangeNothing ==
  /\ Nested =>
       /\ SameLedger(Outer.pre)
       /\ balance[This] = Outer.pre.balance[This] - Outer.amount
       /\ events = Outer.pre.events
  /\ (last.op \in Withdrawals /\ last.err = OK) =>
       /\ SameLedger(last.pre)
       /\ last.pre.balance[This] - balance[This] =
            (IF last.op = "withdraw" THEN last.amount
                                     ELSE last.pre.balance[This])
       /\ Cardinality(EventsNamed(events, "Withdrawal")) =
            Cardinality(EventsNamed(last.pre.events, "Withdrawal")) + 1
       /\ Len(events) = Len(last.pre.events) + 1

\* during a withdrawal the recipient tries an otherwise valid new payment
C21_Witness ==
  /\ Nested
  /\ Outer.op = "withdraw"
  /\ last.op = "pay" /\ last.nested /\ last.amount > 0
  /\ Len(last.orderId) > 0
  /\ last.orderId \notin AcceptedIds(events)
  /\ Failed

\* what getPayment answered for o in the state pre
AnswerIn(pre, o) ==
  IF pre.payments[o].amount = 0
    THEN [err |-> OrderNotFound, ret |-> << >>]
    ELSE [err |-> OK,
          ret |-> <<pre.payments[o].orderId, pre.payments[o].amount,
                    pre.payments[o].payer, pre.payments[o].timestamp>>]

\* C22: getPayment, getPaymentCount and totalReceived are not guarded: called
\* while a withdraw or withdrawAll is in flight they do not fail with
\* ReentrantCall and answer what they answered just before the outer call
\* began.
C22_GettersDuringTransfer ==
  Nested =>
    /\ \A o \in OrderIds :
         /\ getPayment(o).err # ReentrantCall
         /\ getPayment(o) = AnswerIn(Outer.pre, o)
    /\ getPaymentCount = Len(Outer.pre.paymentOrderIds)
    /\ totalReceived = Outer.pre.totalReceived

\* a transfer in flight with the lock taken, one order stored and one not
C22_Witness ==
  /\ Nested /\ status = ENTERED
  /\ \E o \in OrderIds : getPayment(o).err = OK
  /\ \E o \in OrderIds : getPayment(o).err = OrderNotFound
  /\ getPaymentCount > 0
  /\ last.nested


\* a step that takes funds out of the contract is the outbound transfer of a
\* withdraw or withdrawAll called by the current owner, paid to that owner
OutflowStep ==
  balance'[This] < balance[This] =>
    /\ last'.op \in Withdrawals /\ last'.err = InFlight
    /\ last'.caller = owner /\ owner' = owner
    /\ balance'[owner] - balance[owner] = balance[This] - balance'[This]
    /\ \A a \in Accounts \ {owner} : balance'[a] = balance[a]

\* a completed call that left the contract with less than it held is a
\* successful withdrawal called by the owner, who received the difference
OutflowCall ==
  (Ended /\ ~last.nested /\ balance[This] < last.pre.balance[This]) =>
    /\ last.op \in Withdrawals /\ last.err = OK
    /\ last.caller = last.pre.owner
    /\ balance[last.caller] - last.pre.balance[last.caller] =
         last.pre.balance[This] - balance[This]

\* C24: funds leave the contract only to the owner: every decrease of the
\* held balance is a successful withdraw or withdrawAll called by the owner,
\* the owner's balance grows by the same amount, and no call by anyone else
\* decreases the held balance.
C24_FundsLeaveOnlyToOwner == [][OutflowStep]_vars /\ []OutflowCall

\* a second owner, after an ownership transfer, has withdrawn everything
C24_Witness ==
  /\ last.op = "withdrawAll" /\ last.err = OK /\ ~Nested
  /\ last.caller = last.pre.owner /\ last.caller # Deployer
  /\ balance[This] < last.pre.balance[This]
  /\ balance[last.caller] > last.pre.balance[last.caller]


\* the sum of the amounts of the Withdrawal events emitted so far
Withdrawn == SumAmounts(events, EventsNamed(events, "Withdrawal"))

\* value that reached the contract without a call
Forced == forced

\* the amount of the transfer in flight, already sent and not yet logged
Leaving == IF Nested THEN Outer.amount ELSE 0

\* C23 as stated: in every reachable state the held balance equals
\* totalReceived minus the sum of the amounts of the Withdrawal events; so the
\* held balance never exceeds totalReceived and neither does the amount
\* withdrawn.
C23_Original ==
  /\ balance[This] = totalReceived - Withdrawn
  /\ balance[This] <= totalReceived
  /\ Withdrawn <= totalReceived

\* C23 as amended: in every reachable state the held balance equals
\* totalReceived, minus the amounts of the Withdrawal events, minus the amount
\* of a transfer in flight, plus the value that arrived without a call; with
\* no transfer in flight and no such value it equals totalReceived minus the
\* withdrawn amounts, and then neither it nor the amount withdrawn exceeds
\* totalReceived.
C23_BalanceAccounting ==
  /\ balance[This] = totalReceived - Withdrawn - Leaving + Forced
  /\ (~Nested /\ Forced = 0) =>
       /\ balance[This] = totalReceived - Withdrawn
       /\ balance[This] <= totalReceived
       /\ Withdrawn <= totalReceived

\* forced value has been withdrawn: more has left than pay ever received
C23_Witness ==
  /\ ~Nested /\ Forced > 0
  /\ Withdrawn > totalReceived
  /\ totalReceived > 0
  /\ balance[This] = 0

\* a transfer in flight with nothing forced: the balance is already lower
C23_WitnessInFlight ==
  /\ Nested /\ Forced = 0
  /\ balance[This] < totalReceived - Withdrawn


\* C25: provided the outbound transfer returns, every guarded call that has
\* taken the reentrancy lock completes, successfully or not, and the lock is
\* idle again: the contract is never left busy for good.
C25_LockReleased ==
  (status = ENTERED) ~> (status = NOT_ENTERED /\ ~Nested /\ Ended)

\* a withdrawAll came back successfully after the recipient handed the
\* ownership on while it held control; the lock is idle
C25_Witness ==
  /\ status = NOT_ENTERED /\ ~Nested
  /\ last.op = "withdrawAll" /\ last.err = OK
  /\ last.pre.status = NOT_ENTERED
  /\ owner # last.caller


\* the component is unmounted and the subscription has run to its end
Settled == ~app.active /\ app.pc = "done"

\* C26: in the client, however the unmount of App interleaves with the end
\* of the asynchronous subscription to PaymentReceived, once both have
\* happened the listener registered on the contract has been removed, and no
\* event that arrives after the unmount is added to the displayed list.
C26_UnmountCleansUp ==
  /\ [](Settled => service.listeners = {})
  /\ [][~app.active => app'.events = app.events]_vars

\* C26, second half alone: nothing is added to the list after the unmount
C26_NothingShownAfterUnmount ==
  [][~app.active => app'.events = app.events]_vars

\* C26, first half when the contract object is never replaced
C26_RemovedUnlessReplaced ==
  (Settled /\ service.created <= 1) => service.listeners = {}

====
